---- MODULE Spec2Model ----
(***************************************************************************)
(* The degree catalog of the zion learning platform: addDegree, the three  *)
(* editDegree variants, deleteDegree / deleteDegreeById and the readers,   *)
(* over one Firestore "degrees" collection and one storage bucket.         *)
(*                                                                         *)
(* Firestore documents are keyed by the automatic document id addDoc       *)
(* assigns; the degreeId field is a uuid.  uuids are the positive numbers  *)
(* handed out by the counter nextId, automatic document ids the negative   *)
(* numbers handed out by nextDoc, so that the two never coincide.          *)
(* Free text that is only copied (descriptions, prices, overview points,   *)
(* question wording, time stamps) is left out of the records.              *)
(***************************************************************************)
EXTENDS Integers, Sequences, FiniteSets, TLC

\* ---------------------------------------------------------------- bounds
\* MaxNodes bounds the size of an authoring input: its courses, chapters,
\* lessons and thumbnails together.
MaxNodes == 5
MaxQuestions == 2
MaxMarks == 2
MaxCalls == 2
MaxUserCalls == 4

\* ------------------------------------------------------------ basic data
Null == [null |-> TRUE]

Range(s) == {s[n] : n \in DOMAIN s}

SeqsUpTo(S, n) == UNION {[1..m -> S] : m \in 0..n}

\* File.type is a MIME string "primary/sub", kept as the pair of its parts.
ImageFile == [name |-> "cover.png", type |-> <<"image", "png">>]
VideoFile == [name |-> "intro.mp4", type |-> <<"video", "mp4">>]
TextFile == [name |-> "notes.txt", type |-> <<"text", "plain">>]
PdfFile == [name |-> "book.pdf", type |-> <<"application", "pdf">>]

SupportedFoldersWithText ==
  [video |-> "videos", audio |-> "audios", image |-> "images",
   document |-> "documents", pdf |-> "documents", ppt |-> "presentations",
   text |-> "texts"]

SUPPORTED_FILE_FOLDERS ==
  [video |-> "videos", audio |-> "audios", image |-> "images",
   document |-> "documents", pdf |-> "documents", ppt |-> "presentations"]

\* file.type.split('/')[0]
FileType(file) == file.type[1]

Supported(file) == FileType(file) \in DOMAIN SUPPORTED_FILE_FOLDERS

HasDuration(file) == FileType(file) \in {"video", "audio"}

\* The object path uploadFile writes: `${folder}/${uuidv4()}_${file.name}`
FilePath(file, token) ==
  [folder |-> SUPPORTED_FILE_FOLDERS[FileType(file)], token |-> token, name |-> file.name]

\* The object path uploadThumbnail writes: `thumbnails/${uuidv4()}_${file.name}`
ThumbnailPath(file, token) ==
  [folder |-> "thumbnails", token |-> token, name |-> file.name]

\* What uploadFile returns; the download URL is identified with the path.
FileMetadata(file, token, duration) ==
  [url |-> FilePath(file, token), type |-> FileType(file), name |-> file.name,
   duration |-> duration]

\* getMediaDuration (part_002) resolves with the media's duration, or with
\* null on error; uploadFile calls it for video and audio only.
Durations(file) == IF HasDuration(file) THEN {Null, [seconds |-> 60]} ELSE {Null}

\* ----------------------------------------------------------------- tests
\* marks = 0 stands for an absent (or otherwise falsy) marks field; a question
\* without the field correctAnswer has none, and "null" is the value null.
QuestionSpecs == [type : {"MCQ", "Typed"}, marks : 0..MaxMarks]

TestSpecs == [questions : SeqsUpTo(QuestionSpecs, MaxQuestions)]

FormatQuestion(question) ==
  IF question.type = "MCQ"
    THEN [answerType |-> "MCQ",
          correctAnswer |-> IF "correctAnswer" \in DOMAIN question
                              THEN question.correctAnswer ELSE "null",
          marks |-> IF question.marks # 0 THEN question.marks ELSE 1]
    ELSE [answerType |-> "Typed", marks |-> 0]

createTestObject(testData, testId) ==
  [testId |-> testId,
   totalMarks |-> 0,
   questions |-> [n \in DOMAIN testData.questions |->
                    FormatQuestion(testData.questions[n])]]

\* The forEach loop of calculateTotalMarks: the running total after `questions`.
RECURSIVE TotalAfter(_)
TotalAfter(questions) ==
  IF questions = <<>> THEN 0
  ELSE LET question == questions[Len(questions)]
           total == TotalAfter(SubSeq(questions, 1, Len(questions) - 1))
       IN IF question.answerType = "MCQ" THEN total + question.marks
          ELSE IF question.answerType = "Typed" THEN total + question.marks
          ELSE total

calculateTotalMarks(test) ==
  [test EXCEPT !.totalMarks = TotalAfter(test.questions)]

DefaultTest ==
  [questions |-> <<[type |-> "MCQ", marks |-> 2], [type |-> "Typed", marks |-> 0]>>]

\* The loop of calculateUserMarks: the running userTotal after the first n
\* questions.
RECURSIVE UserTotalCountingAfter(_, _, _)
UserTotalCountingAfter(questions, userAnswers, n) ==
  IF n = 0 THEN 0
  ELSE LET question == questions[n]
           userTotal == UserTotalCountingAfter(questions, userAnswers, n - 1)
       IN IF question.answerType = "MCQ"
            THEN IF userAnswers[n].answer = question.correctAnswer
                   THEN userTotal + 1 ELSE userTotal
          ELSE IF question.answerType = "Typed"
            THEN IF userAnswers[n].isValidated
                   THEN userTotal + question.marks ELSE userTotal
          ELSE userTotal

RECURSIVE UserTotalAfter(_, _, _)
UserTotalAfter(questions, userAnswers, n) ==
  IF n = 0 THEN 0
  ELSE LET question == questions[n]
           userTotal == UserTotalAfter(questions, userAnswers, n - 1)
       IN IF question.answerType = "MCQ"
            THEN IF userAnswers[n].answer = question.correctAnswer
                   THEN userTotal + question.marks ELSE userTotal
          ELSE IF question.answerType = "Typed"
            THEN IF userAnswers[n].isValidated
                   THEN userTotal + question.marks ELSE userTotal
          ELSE userTotal

calculateUserMarks(test, userAnswers) ==
  UserTotalAfter(test.questions, userAnswers, Len(test.questions))

\* The tests built on their own: MCQ questions with or without a correct
\* answer, Typed questions, every authored marks value.
ExamQuestionSpecs ==
  QuestionSpecs \cup [type : {"MCQ"}, marks : 0..MaxMarks, correctAnswer : {"A"}]

ExamInputs == [questions : SeqsUpTo(ExamQuestionSpecs, MaxQuestions)]

\* One submitted answer: the option chosen (or null) and, for a typed answer,
\* whether it has been validated.
AnswerSpecs == [answer : {"A", "B", "null"}, isValidated : BOOLEAN]

NoExam ==
  [pc |-> "none", testData |-> Null, test |-> Null, userAnswers |-> <<>>,
   userTotal |-> 0]

\* ------------------------------------------------------ authoring inputs
\* A shape is the skeleton of an authoring input: which thumbnails are present
\* and how many courses, chapters and lessons there are.
RECURSIVE ChapterShapeLists(_)
ChapterShapeLists(n) ==
  IF n < 0 THEN {} ELSE
  {<<>>} \cup
  UNION {{<<lessons>> \o rest : rest \in ChapterShapeLists(n - 1 - lessons)} :
           lessons \in 0..(n - 1)}

CourseShapes(n) ==
  {[thumb |-> t, chapters |-> cs] :
     t \in {FALSE}, cs \in ChapterShapeLists(n - 1)} \cup
  {[thumb |-> t, chapters |-> cs] :
     t \in {TRUE}, cs \in ChapterShapeLists(n - 2)}

RECURSIVE SumSeq(_)
SumSeq(s) == IF s = <<>> THEN 0 ELSE s[1] + SumSeq(Tail(s))

CourseSize(c) ==
  1 + (IF c.thumb THEN 1 ELSE 0) + Len(c.chapters) + SumSeq(c.chapters)

RECURSIVE CourseShapeLists(_)
CourseShapeLists(n) ==
  IF n < 0 THEN {} ELSE
  {<<>>} \cup
  UNION {{<<c>> \o rest : rest \in CourseShapeLists(n - CourseSize(c))} :
           c \in CourseShapes(n)}

DegreeShapes ==
  {[thumb |-> t, courses |-> cs] :
     t \in {FALSE}, cs \in CourseShapeLists(MaxNodes)} \cup
  {[thumb |-> t, courses |-> cs] :
     t \in {TRUE}, cs \in CourseShapeLists(MaxNodes - 1)}

\* The authoring input of a shape.  Titles name the position, so that every
\* node of an input can be told from its siblings.
LessonInput(i, j, k, file) == [title |-> <<i, j, k>>, file |-> file]

ChapterInput(i, j, lessons, test) ==
  [title |-> <<i, j>>, test |-> test, lessons |-> lessons]

CourseInput(i, thumbnail, chapters, finalTest) ==
  [title |-> <<i>>, thumbnail |-> thumbnail, chapters |-> chapters,
   finalTest |-> finalTest]

DegreeInput(thumbnail, courses) ==
  [name |-> "Theology", thumbnail |-> thumbnail, courses |-> courses]

Materialize(shape, file, test) ==
  DegreeInput(
    IF shape.thumb THEN ImageFile ELSE Null,
    [i \in DOMAIN shape.courses |->
       LET c == shape.courses[i] IN
       CourseInput(i, IF c.thumb THEN ImageFile ELSE Null,
         [j \in DOMAIN c.chapters |->
            ChapterInput(i, j,
              [k \in 1..c.chapters[j] |-> LessonInput(i, j, k, file)], test)],
         test)])

\* Inputs that vary the shape of the tree (image lessons; every chapter and
\* course with the same test, or all without).
ShapeInputs ==
  {Materialize(shape, ImageFile, test) :
     shape \in DegreeShapes, test \in {Null, DefaultTest}}

\* Inputs that vary the tests of a one-course, one-chapter degree.
TestInputs ==
  {DegreeInput(Null, <<CourseInput(1, Null, <<ChapterInput(1, 1, <<>>, ct)>>, ft)>>) :
     ct \in TestSpecs \cup {Null}, ft \in {Null, DefaultTest}} \cup
  {DegreeInput(Null, <<CourseInput(1, Null, <<ChapterInput(1, 1, <<>>, ct)>>, ft)>>) :
     ct \in {Null, DefaultTest}, ft \in TestSpecs \cup {Null}}

\* Inputs that vary the file of a one-lesson degree.
FileInputs ==
  {Materialize([thumb |-> FALSE,
                courses |-> <<[thumb |-> FALSE, chapters |-> <<1>>]>>], file, Null) :
     file \in {ImageFile, VideoFile, TextFile, PdfFile}}

DegreeInputs == ShapeInputs \cup TestInputs \cup FileInputs

\* ------------------------------------------------------------------ state
VARIABLES
  degreeData,   \* addDegree: its argument
  pc,           \* addDegree: where the call is
  up,           \* addDegree: the uploads of the call, by position in the input
  lessonsOut,   \* addDegree: the lessons built so far (result slots of Promise.all)
  chaptersOut,  \* addDegree: the chapters built so far
  coursesOut,   \* addDegree: the courses built so far
  degree,       \* addDegree: the degree object handed to addDoc
  nextId,       \* uuidv4: the number of uuids handed out
  nextDoc,      \* Firestore: the number of automatic document ids handed out
  degrees,      \* Firestore: the degrees collection, document id -> fields
  storage,      \* the storage bucket: the object paths written
  returned,     \* the degreeIds addDegree has returned to its callers
  cpc,          \* per client: where its current call is
  call,         \* per client: the operation called and its arguments
  snap,         \* per client: the query snapshot the call read (degreeDoc)
  patch,        \* per client: the fields the call is about to write
  outcome,      \* per client: how its last call ended
  ncalls,       \* the number of calls each client has made so far
  exam,         \* a test being built, totalled and scored on its own
  users,        \* Firestore: the users collection, document id -> fields
  accounts,     \* Firebase Auth: the emails that have an account
  nextUser      \* Firestore: the number of automatic user document ids handed out

vars ==
  <<degreeData, pc, up, lessonsOut, chaptersOut, coursesOut, degree, nextId,
    nextDoc, degrees, storage, returned, cpc, call, snap, patch, outcome, ncalls,
    exam, users, accounts, nextUser>>

userVars == <<users, accounts, nextUser>>

storeVars == <<nextId, nextDoc, degrees, storage, returned>>

clientVars == <<cpc, call, snap, patch, outcome, ncalls>>

addVars == <<degreeData, pc, up, lessonsOut, chaptersOut, coursesOut, degree>>

\* Positions: <<>> is the degree thumbnail, <<i>> the thumbnail of course i,
\* <<i, j>> chapter j of course i, <<i, j, k>> its lesson k.
CourseKeys(d) == DOMAIN d.courses

ChapterKeys(d) ==
  UNION {{<<i, j>> : j \in DOMAIN d.courses[i].chapters} : i \in DOMAIN d.courses}

LessonKeysOf(d, i) ==
  UNION {{<<i, j, k>> : k \in DOMAIN d.courses[i].chapters[j].lessons} :
           j \in DOMAIN d.courses[i].chapters}

LessonKeys(d) == UNION {LessonKeysOf(d, i) : i \in DOMAIN d.courses}

ThumbKeys(d) ==
  (IF d.thumbnail # Null THEN {<<>>} ELSE {}) \cup
  {<<i>> : i \in {c \in DOMAIN d.courses : d.courses[c].thumbnail # Null}}

UploadKeys(d) == ThumbKeys(d) \cup LessonKeys(d)

FileOf(d, key) ==
  IF key = <<>> THEN d.thumbnail
  ELSE IF Len(key) = 1 THEN d.courses[key[1]].thumbnail
  ELSE d.courses[key[1]].chapters[key[2]].lessons[key[3]].file

\* The order in which the maps visit positions.
Pad(key) == [n \in 1..3 |-> IF n <= Len(key) THEN key[n] ELSE 0]

Before(a, b) ==
  LET x == Pad(a)
      y == Pad(b)
  IN \/ x[1] < y[1]
     \/ x[1] = y[1] /\ x[2] < y[2]
     \/ x[1] = y[1] /\ x[2] = y[2] /\ x[3] < y[3]

\* uploadFile throws on an unsupported type before it asks for a uuid;
\* uploadThumbnail does not look at the type.
TakesToken(d, key) == Len(key) < 3 \/ Supported(FileOf(d, key))

\* The uploads `keys` are started in one synchronous sweep: each takes the
\* next uuid for its object name, in visiting order.
Started(d, u, keys, base) ==
  [key \in DOMAIN u |->
     IF key \notin keys THEN u[key]
     ELSE IF TakesToken(d, key)
       THEN [st |-> "pending", cause |-> "none",
             token |-> base + Cardinality({x \in keys :
                                             TakesToken(d, x) /\ Before(x, key)}) + 1]
       ELSE [st |-> "failed", cause |-> "type", token |-> 0]]

TokensTaken(d, keys) == Cardinality({x \in keys : TakesToken(d, x)})

PathOf(d, u, key) ==
  IF Len(key) < 3 THEN ThumbnailPath(FileOf(d, key), u[key].token)
  ELSE FilePath(FileOf(d, key), u[key].token)

\* courses.map(async ...): a course with a thumbnail first awaits its upload,
\* one without goes straight on to its chapters and their lessons.
FirstSweep(d) ==
  {<<i>> : i \in {c \in DOMAIN d.courses : d.courses[c].thumbnail # Null}} \cup
  UNION {LessonKeysOf(d, i) :
           i \in {c \in DOMAIN d.courses : d.courses[c].thumbnail = Null}}

\* A rejected upload rejects every Promise.all above it and so the call, if the
\* call has not yet ended.
RejectedSwallowed(p) == p

Rejected(p) == IF p \in {"thumb", "courses"} THEN "failed" ELSE p

\* ------------------------------------------------- addDegree: the records
FormatLesson(lesson, metadata, id) ==
  [lessonId |-> id + 1, lessonTitle |-> lesson.title, file |-> metadata]

\* test = createTestObject(chapter.test) takes a uuid before chapterId does.
FormatChapter(chapter, lessons, id) ==
  [chapterId |-> IF chapter.test # Null THEN id + 2 ELSE id + 1,
   chapterTitle |-> chapter.title,
   test |-> IF chapter.test # Null
              THEN calculateTotalMarks(createTestObject(chapter.test, id + 1))
              ELSE Null,
   lessons |-> lessons]

ChapterUuids(chapter) == IF chapter.test # Null THEN 2 ELSE 1

FormatCourseSharedId(course, thumbnailUrl, chapters, id) ==
  [courseId |-> id + 1,
   courseTitle |-> course.title,
   thumbnail |-> thumbnailUrl,
   chapters |-> chapters,
   finalTest |-> IF course.finalTest # Null
                   THEN createTestObject(course.finalTest, id + 1)
                   ELSE Null]

FormatCourse(course, thumbnailUrl, chapters, id) ==
  [courseId |-> id + 1,
   courseTitle |-> course.title,
   thumbnail |-> thumbnailUrl,
   chapters |-> chapters,
   finalTest |-> IF course.finalTest # Null
                   THEN createTestObject(course.finalTest, id + 2)
                   ELSE Null]

CourseUuids(course) == IF course.finalTest # Null THEN 2 ELSE 1

FormatDegree(d, thumbnailUrl, courses, id) ==
  [degreeId |-> id + 1,
   degreeTitle |-> d.name,
   thumbnail |-> thumbnailUrl,
   courses |-> courses]

\* ---------------------------------------------- addDegree: the call's state
ThumbnailUrl(key) ==
  IF FileOf(degreeData, key) = Null THEN Null
  ELSE ThumbnailPath(FileOf(degreeData, key), up[key].token)

\* The lessons of a chapter as Promise.all hands them on: in completion order
\* (the order in which the lessons took their lessonId) instead of input order.
FormattedLessonsAsCompleted(i, j) ==
  LET n == Len(degreeData.courses[i].chapters[j].lessons)
      earlier(k) == Cardinality({m \in 1..n :
                       lessonsOut[<<i, j, m>>].lessonId < lessonsOut[<<i, j, k>>].lessonId})
  IN [r \in 1..n |-> lessonsOut[<<i, j, CHOOSE k \in 1..n : earlier(k) = r - 1>>]]

\* Promise.all resolves with the results in the order of its input array.
FormattedLessons(i, j) ==
  [k \in DOMAIN degreeData.courses[i].chapters[j].lessons |-> lessonsOut[<<i, j, k>>]]

FormattedChapters(i) ==
  [j \in DOMAIN degreeData.courses[i].chapters |-> chaptersOut[<<i, j>>]]

FormattedCourses == [i \in DOMAIN degreeData.courses |-> coursesOut[i]]

\* The fan-out over the courses has happened.
Fanned ==
  pc # "init" /\ (IF degreeData.thumbnail = Null THEN TRUE ELSE up[<<>>].st = "ok")

\* Course i has got past its thumbnail and mapped its chapters.
CourseStarted(i) ==
  Fanned /\ (IF degreeData.courses[i].thumbnail = Null THEN TRUE
             ELSE up[<<i>>].st = "ok")

ChapterReady(i, j) ==
  /\ CourseStarted(i)
  /\ chaptersOut[<<i, j>>] = Null
  /\ \A k \in DOMAIN degreeData.courses[i].chapters[j].lessons :
        lessonsOut[<<i, j, k>>] # Null

CourseReady(i) ==
  /\ CourseStarted(i)
  /\ coursesOut[i] = Null
  /\ \A j \in DOMAIN degreeData.courses[i].chapters : chaptersOut[<<i, j>>] # Null

DegreeReady ==
  pc = "courses" /\ \A i \in DOMAIN degreeData.courses : coursesOut[i] # Null

\* A continuation is queued: it runs before the next I/O completion is handled.
Microtask ==
  \/ \E key \in ChapterKeys(degreeData) : ChapterReady(key[1], key[2])
  \/ \E i \in CourseKeys(degreeData) : CourseReady(i)
  \/ DegreeReady

AutoId(n) == 0 - n

Clients == {"a", "b"}

InitWith(inputs) ==
  /\ degreeData \in inputs
  /\ pc = "init"
  /\ up = [key \in UploadKeys(degreeData) |-> [st |-> "idle", cause |-> "none", token |-> 0]]
  /\ lessonsOut = [key \in LessonKeys(degreeData) |-> Null]
  /\ chaptersOut = [key \in ChapterKeys(degreeData) |-> Null]
  /\ coursesOut = [i \in CourseKeys(degreeData) |-> Null]
  /\ degree = Null
  /\ nextId = 0
  /\ nextDoc = 0
  /\ degrees = <<>>
  /\ storage = {}
  /\ returned = {}
  /\ cpc = [c \in Clients |-> "idle"]
  /\ call = [c \in Clients |-> [op |-> "none"]]
  /\ snap = [c \in Clients |-> Null]
  /\ patch = [c \in Clients |-> Null]
  /\ outcome = [c \in Clients |-> "none"]
  /\ ncalls = [c \in Clients |-> 0]
  /\ users = <<>>
  /\ accounts = {}
  /\ nextUser = 0

\* ------------------------------------------------- addDegree: the actions
\* The sweep over the courses: up, nextId and pc after it.
Sweep(u, keys) ==
  LET started == Started(degreeData, u, keys, nextId)
  IN /\ up' = started
     /\ nextId' = nextId + TokensTaken(degreeData, keys)
     /\ pc' = IF \E key \in keys : started[key].st = "failed"
                THEN Rejected(IF pc \in {"init", "thumb"} THEN "courses" ELSE pc)
                ELSE IF pc \in {"init", "thumb"} THEN "courses" ELSE pc

AddStart ==
  /\ pc = "init"
  /\ IF degreeData.thumbnail # Null
       THEN /\ up' = Started(degreeData, up, {<<>>}, nextId)
            /\ nextId' = nextId + 1
            /\ pc' = "thumb"
       ELSE Sweep(up, FirstSweep(degreeData))
  /\ UNCHANGED <<degreeData, lessonsOut, chaptersOut, coursesOut, degree, nextDoc,
                 degrees, storage, returned, clientVars, exam, userVars>>

DegreeThumbnailDone ==
  /\ pc = "thumb"
  /\ up[<<>>].st = "pending"
  /\ storage' = storage \cup {PathOf(degreeData, up, <<>>)}
  /\ Sweep([up EXCEPT ![<<>>].st = "ok"], FirstSweep(degreeData))
  /\ UNCHANGED <<degreeData, lessonsOut, chaptersOut, coursesOut, degree, nextDoc,
                 degrees, returned, clientVars, exam, userVars>>

CourseThumbnailDone(i) ==
  /\ <<i>> \in DOMAIN up
  /\ up[<<i>>].st = "pending"
  /\ ~Microtask
  /\ storage' = storage \cup {PathOf(degreeData, up, <<i>>)}
  /\ Sweep([up EXCEPT ![<<i>>].st = "ok"], LessonKeysOf(degreeData, i))
  /\ UNCHANGED <<degreeData, lessonsOut, chaptersOut, coursesOut, degree, nextDoc,
                 degrees, returned, clientVars, exam, userVars>>

\* degreeApi.js calls getMediaDuration for video and audio without defining or
\* importing it: where the name is unresolved the upload ends in the catch block
\* after the bytes were written (UploadFailed); where the build resolves it, it
\* is the function of part_002 and part_003.
LessonFileDone(key) ==
  /\ up[key].st = "pending"
  /\ ~Microtask
  /\ \E duration \in Durations(FileOf(degreeData, key)) :
       lessonsOut' = [lessonsOut EXCEPT ![key] =
         FormatLesson(degreeData.courses[key[1]].chapters[key[2]].lessons[key[3]],
                      FileMetadata(FileOf(degreeData, key), up[key].token, duration),
                      nextId)]
  /\ nextId' = nextId + 1
  /\ up' = [up EXCEPT ![key].st = "ok"]
  /\ storage' = storage \cup {PathOf(degreeData, up, key)}
  /\ UNCHANGED <<degreeData, pc, chaptersOut, coursesOut, degree, nextDoc, degrees,
                 returned, clientVars, exam, userVars>>

\* Why a started upload ends in the catch block: uploadBytes fails (nothing
\* written), getDownloadURL fails (bytes written) or, in uploadFile for video
\* and audio, the call of the unresolved getMediaDuration throws (bytes written
\* and URL obtained).
FailureCauses(key) ==
  {"bytes", "url"} \cup
  (IF Len(key) = 3 /\ HasDuration(FileOf(degreeData, key)) THEN {"duration"} ELSE {})

UploadFailed(key, cause) ==
  /\ up[key].st = "pending"
  /\ ~Microtask
  /\ up' = [up EXCEPT ![key].st = "failed", ![key].cause = cause]
  /\ storage' = IF cause = "bytes" THEN storage
                ELSE storage \cup {PathOf(degreeData, up, key)}
  /\ pc' = Rejected(pc)
  /\ UNCHANGED <<degreeData, lessonsOut, chaptersOut, coursesOut, degree, nextId,
                 nextDoc, degrees, returned, clientVars, exam, userVars>>

BuildChapter(i, j) ==
  /\ ChapterReady(i, j)
  /\ chaptersOut' = [chaptersOut EXCEPT ![<<i, j>>] =
       FormatChapter(degreeData.courses[i].chapters[j], FormattedLessons(i, j), nextId)]
  /\ nextId' = nextId + ChapterUuids(degreeData.courses[i].chapters[j])
  /\ UNCHANGED <<degreeData, pc, up, lessonsOut, coursesOut, degree, nextDoc, degrees,
                 storage, returned, clientVars, exam, userVars>>

BuildCourse(i) ==
  /\ CourseReady(i)
  /\ coursesOut' = [coursesOut EXCEPT ![i] =
       FormatCourse(degreeData.courses[i], ThumbnailUrl(<<i>>), FormattedChapters(i),
                    nextId)]
  /\ nextId' = nextId + CourseUuids(degreeData.courses[i])
  /\ UNCHANGED <<degreeData, pc, up, lessonsOut, chaptersOut, degree, nextDoc, degrees,
                 storage, returned, clientVars, exam, userVars>>

BuildDegree ==
  /\ DegreeReady
  /\ degree' = FormatDegree(degreeData, ThumbnailUrl(<<>>), FormattedCourses, nextId)
  /\ nextId' = nextId + 1
  /\ pc' = "saving"
  /\ UNCHANGED <<degreeData, up, lessonsOut, chaptersOut, coursesOut, nextDoc, degrees,
                 storage, returned, clientVars, exam, userVars>>

\* await addDoc(collection(db, 'degrees'), degree); return degree.degreeId
SaveDegree ==
  /\ pc = "saving"
  /\ degrees' = (AutoId(nextDoc + 1) :> degree) @@ degrees
  /\ nextDoc' = nextDoc + 1
  /\ pc' = "done"
  /\ returned' = returned \cup {degree.degreeId}
  /\ UNCHANGED <<degreeData, up, lessonsOut, chaptersOut, coursesOut, degree, nextId,
                 storage, clientVars, exam, userVars>>

SaveFailed ==
  /\ pc = "saving"
  /\ pc' = "failed"
  /\ UNCHANGED <<degreeData, up, lessonsOut, chaptersOut, coursesOut, degree, nextId,
                 nextDoc, degrees, storage, returned, clientVars, exam, userVars>>

NextAdd ==
  \/ AddStart
  \/ DegreeThumbnailDone
  \/ \E i \in CourseKeys(degreeData) : CourseThumbnailDone(i)
  \/ \E key \in LessonKeys(degreeData) : LessonFileDone(key)
  \/ \E key \in UploadKeys(degreeData) :
       \E cause \in FailureCauses(key) : UploadFailed(key, cause)
  \/ \E key \in ChapterKeys(degreeData) : BuildChapter(key[1], key[2])
  \/ \E i \in CourseKeys(degreeData) : BuildCourse(i)
  \/ BuildDegree
  \/ SaveDegree
  \/ SaveFailed

InitAdd == InitWith(DegreeInputs) /\ exam = NoExam

SpecAdd == InitAdd /\ [][NextAdd]_vars

\* --------------------------------------------------- Firestore and storage
\* getDocs(query(collection, where('degreeId', '==', degreeId))): the matching
\* document ids.
Query(degreeId) == {d \in DOMAIN degrees : degrees[d].degreeId = degreeId}

\* docs[0] of a non-empty query snapshot: the earliest document.
First(ds) == CHOOSE d \in ds : \A e \in ds : d >= e

\* updateDoc(ref, fields): the named fields are set, the others stay.
UpdateFieldsMerging(doc, fields) ==
  [f \in DOMAIN doc \cup DOMAIN fields |->
     IF f \notin DOMAIN fields THEN doc[f]
     ELSE IF f = "courses" /\ f \in DOMAIN doc
       THEN doc[f] \o SelectSeq(fields[f], LAMBDA c : c \notin Range(doc[f]))
       ELSE fields[f]]

UpdateFields(doc, fields) ==
  [f \in DOMAIN doc \cup DOMAIN fields |->
     IF f \in DOMAIN fields THEN fields[f] ELSE doc[f]]

Without(ds, d) == [e \in DOMAIN ds \ {d} |-> ds[e]]

getDegreeById(degreeId) ==
  IF Query(degreeId) = {} THEN Null ELSE degrees[First(Query(degreeId))]

\* { id: doc.id, ...doc.data() }
getAllDegrees == {UpdateFields([id |-> d], degrees[d]) : d \in DOMAIN degrees}

\* How an upload ends: stored and URL obtained; uploadBytes failed; or
\* getDownloadURL failed after the bytes were written.
Outcomes == {"ok", "lost", "nourl"}

\* uploadFile of part_002 as one step: [ok, metadata, id, written], id being
\* the uuid count after it and written the object paths it wrote.
uploadFile(file, id, ending, duration) ==
  IF ~Supported(file)
    THEN [ok |-> FALSE, metadata |-> Null, id |-> id, written |-> {}]
    ELSE [ok |-> ending = "ok",
          metadata |->
            IF ending = "ok"
              THEN [url |-> FilePath(file, id + 1), type |-> FileType(file),
                    name |-> file.name, duration |-> duration, autoUpdate |-> TRUE,
                    link |-> FilePath(file, id + 1)]
              ELSE Null,
          id |-> id + 1,
          written |-> IF ending = "lost" THEN {} ELSE {FilePath(file, id + 1)}]

uploadThumbnail(file, id, ending) ==
  [ok |-> ending = "ok",
   metadata |-> IF ending = "ok" THEN ThumbnailPath(file, id + 1) ELSE Null,
   id |-> id + 1,
   written |-> IF ending = "lost" THEN {} ELSE {ThumbnailPath(file, id + 1)}]

NoUpload(id) == [ok |-> TRUE, metadata |-> Null, id |-> id, written |-> {}]

\* ------------------------------------------- editDegree of part_002 (append)
\* createTestObject of part_002: no totalMarks, no answerType.
createTestObjectPlain(testData, testId) ==
  [testId |-> testId,
   questions |-> [n \in DOMAIN testData.questions |->
                    [options |-> Null, correctAnswer |-> Null]]]

\* findIndex: the first matching index, 0 standing for -1.
CourseIndex(courses, courseId) ==
  IF \E n \in DOMAIN courses : courses[n].courseId = courseId
    THEN CHOOSE n \in DOMAIN courses :
           /\ courses[n].courseId = courseId
           /\ \A m \in 1..(n - 1) : courses[m].courseId # courseId
    ELSE 0

ChapterIndex(chapters, chapterId) ==
  IF \E n \in DOMAIN chapters : chapters[n].chapterId = chapterId
    THEN CHOOSE n \in DOMAIN chapters :
           /\ chapters[n].chapterId = chapterId
           /\ \A m \in 1..(n - 1) : chapters[m].chapterId # chapterId
    ELSE 0

\* degreeData.courses.push(newCourse)
PushCourse(data, course) == [data EXCEPT !.courses = Append(@, course)]

\* A run is the call so far: [ok, data, id, written]; data is degreeData, the
\* in-memory copy of the document, id the uuid count, written the objects stored.
\* if (updates.newCourse) { ... }
AppendCourse(run, newCourse, ending, duration) ==
  IF newCourse = Null THEN run
  ELSE
    LET upload == IF newCourse.thumbnail = Null THEN NoUpload(run.id + 1)
                  ELSE uploadFile(newCourse.thumbnail, run.id + 1, ending, duration)
        course == [courseId |-> run.id + 1,
                   courseTitle |-> newCourse.title,
                   thumbnail |-> upload.metadata,
                   chapters |-> <<>>,
                   finalTest |-> IF newCourse.finalTest = Null THEN Null
                                 ELSE createTestObjectPlain(newCourse.finalTest,
                                                            upload.id + 1)]
    IN IF upload.ok
         THEN [ok |-> TRUE,
               data |-> PushCourse(run.data, course),
               id |-> IF newCourse.finalTest = Null THEN upload.id ELSE upload.id + 1,
               written |-> run.written \cup upload.written]
         ELSE [ok |-> FALSE, data |-> run.data, id |-> upload.id,
               written |-> run.written \cup upload.written]

\* if (updates.newChapter) { ... }
AppendChapter(run, newChapter) ==
  IF ~run.ok \/ newChapter = Null THEN run
  ELSE
    LET courseIndex == CourseIndex(run.data.courses, newChapter.courseId)
    IN IF courseIndex = 0 THEN [run EXCEPT !.ok = FALSE]
       ELSE [run EXCEPT
               !.data.courses[courseIndex].chapters =
                  Append(@, [chapterId |-> run.id + 1,
                             chapterTitle |-> newChapter.title,
                             lessons |-> <<>>,
                             test |-> Null]),
               !.id = @ + 1]

\* if (updates.newLesson) { ... } without the two "not found" throws: a lesson
\* for a course or chapter that is not there is dropped and the call goes on.
AppendLessonUnchecked(run, newLesson, ending, duration) ==
  IF ~run.ok \/ newLesson = Null THEN run
  ELSE
    LET courseIndex == CourseIndex(run.data.courses, newLesson.courseId)
        chapterIndex ==
          IF courseIndex = 0 THEN 0
          ELSE ChapterIndex(run.data.courses[courseIndex].chapters, newLesson.chapterId)
        upload == uploadFile(newLesson.file, run.id, ending, duration)
    IN IF courseIndex = 0 \/ chapterIndex = 0 THEN run
       ELSE IF ~upload.ok
         THEN [run EXCEPT !.ok = FALSE, !.id = upload.id,
                          !.written = @ \cup upload.written]
       ELSE [run EXCEPT
               !.data.courses[courseIndex].chapters[chapterIndex].lessons =
                  Append(@, [lessonId |-> upload.id + 1,
                             lessonTitle |-> newLesson.title,
                             file |-> upload.metadata]),
               !.id = upload.id + 1,
               !.written = @ \cup upload.written]

\* if (updates.newLesson) { ... }
AppendLesson(run, newLesson, ending, duration) ==
  IF ~run.ok \/ newLesson = Null THEN run
  ELSE
    LET courseIndex == CourseIndex(run.data.courses, newLesson.courseId)
        chapterIndex ==
          IF courseIndex = 0 THEN 0
          ELSE ChapterIndex(run.data.courses[courseIndex].chapters, newLesson.chapterId)
        upload == uploadFile(newLesson.file, run.id, ending, duration)
    IN IF courseIndex = 0 \/ chapterIndex = 0 THEN [run EXCEPT !.ok = FALSE]
       ELSE IF ~upload.ok
         THEN [run EXCEPT !.ok = FALSE, !.id = upload.id,
                          !.written = @ \cup upload.written]
       ELSE [run EXCEPT
               !.data.courses[courseIndex].chapters[chapterIndex].lessons =
                  Append(@, [lessonId |-> upload.id + 1,
                             lessonTitle |-> newLesson.title,
                             file |-> upload.metadata]),
               !.id = upload.id + 1,
               !.written = @ \cup upload.written]

\* The arguments the clients call with.  0 is an identifier that names nothing.
IdArgs == returned \cup DOMAIN degrees \cup {0}

KnownCourseIds ==
  UNION {{doc.courses[i].courseId : i \in DOMAIN doc.courses} :
           doc \in {degrees[d] : d \in DOMAIN degrees}}

KnownChapterIds ==
  UNION {UNION {{doc.courses[i].chapters[j].chapterId :
                   j \in DOMAIN doc.courses[i].chapters} : i \in DOMAIN doc.courses} :
           doc \in {degrees[d] : d \in DOMAIN degrees}}

PlainCourse == [title |-> <<0>>, thumbnail |-> Null, finalTest |-> Null]

NewCourses ==
  {PlainCourse, [title |-> <<0>>, thumbnail |-> ImageFile, finalTest |-> DefaultTest]}

\* A chapter for a stored course, or for a course that is not there.
NewChapters == {[courseId |-> c, title |-> <<0, 0>>] : c \in KnownCourseIds \cup {0}}

\* A lesson for a stored chapter, for a chapter that is not there, or for a
\* course that is not there.
NewLessons ==
  {[courseId |-> c, chapterId |-> h, title |-> <<0, 0, 0>>, file |-> ImageFile] :
     c \in KnownCourseIds, h \in KnownChapterIds \cup {0}}
    \cup {[courseId |-> 0, chapterId |-> 0, title |-> <<0, 0, 0>>, file |-> ImageFile]}

Updates(course, chapter, lesson) ==
  [newCourse |-> course, newChapter |-> chapter, newLesson |-> lesson]

\* The requests the clients send: one block, or two of them, the first a
\* course without uploads or a chapter.
AppendUpdates ==
  {Updates(course, Null, Null) : course \in NewCourses}
    \cup {Updates(Null, chapter, Null) : chapter \in NewChapters}
    \cup {Updates(Null, Null, lesson) : lesson \in NewLessons}
    \cup {Updates(PlainCourse, chapter, Null) : chapter \in NewChapters}
    \cup {Updates(PlainCourse, Null, lesson) : lesson \in NewLessons}
    \cup {Updates(Null, chapter, lesson) : chapter \in NewChapters, lesson \in NewLessons}

\* A client calls when its previous call has ended; MaxCalls bounds the calls made.
Calls == ncalls["a"] + ncalls["b"]

MayCall(c) == cpc[c] \in {"idle", "done"} /\ Calls < MaxCalls

Ended(c, how) ==
  /\ cpc' = [cpc EXCEPT ![c] = "done"]
  /\ outcome' = [outcome EXCEPT ![c] = how]

\* editDegree (part_002) up to its updateDoc: the query, then the three blocks.
EditAppendRead(c, degreeId, updates) ==
  /\ MayCall(c)
  /\ ncalls' = [ncalls EXCEPT ![c] = @ + 1]
  /\ call' = [call EXCEPT ![c] = [op |-> "editAppend", id |-> degreeId,
                                  updates |-> updates]]
  /\ IF Query(degreeId) = {}
       THEN /\ Ended(c, "false")
            /\ snap' = [snap EXCEPT ![c] = Null]
            /\ patch' = [patch EXCEPT ![c] = Null]
            /\ UNCHANGED <<nextId, storage>>
       ELSE \E thumbnailOutcome \in
                 (IF updates.newCourse # Null /\ updates.newCourse.thumbnail # Null
                    THEN Outcomes ELSE {"ok"}),
               lessonOutcome \in (IF updates.newLesson # Null THEN Outcomes ELSE {"ok"}),
               thumbnailDuration \in
                 (IF updates.newCourse # Null /\ updates.newCourse.thumbnail # Null
                    THEN Durations(updates.newCourse.thumbnail) ELSE {Null}),
               lessonDuration \in
                 (IF updates.newLesson # Null
                    THEN Durations(updates.newLesson.file) ELSE {Null}) :
              LET degreeRef == First(Query(degreeId))
                  run == AppendLesson(
                           AppendChapter(
                             AppendCourse([ok |-> TRUE, data |-> degrees[degreeRef],
                                           id |-> nextId, written |-> {}],
                                          updates.newCourse, thumbnailOutcome,
                                          thumbnailDuration),
                             updates.newChapter),
                           updates.newLesson, lessonOutcome, lessonDuration)
              IN /\ snap' = [snap EXCEPT ![c] = [ref |-> degreeRef,
                                                 data |-> degrees[degreeRef]]]
                 /\ nextId' = run.id
                 /\ storage' = storage \cup run.written
                 /\ IF run.ok
                      THEN /\ patch' = [patch EXCEPT ![c] = run.data]
                           /\ cpc' = [cpc EXCEPT ![c] = "appendWrite"]
                           /\ UNCHANGED outcome
                      ELSE /\ patch' = [patch EXCEPT ![c] = Null]
                           /\ Ended(c, "false")
  /\ UNCHANGED <<addVars, exam, userVars, nextDoc, degrees, returned>>

\* await updateDoc(ref, fields), which throws when the document is gone.
UpdateDoc(c, ref, thrown, value) ==
  IF ref \in DOMAIN degrees
    THEN /\ degrees' = [degrees EXCEPT ![ref] = UpdateFields(@, patch[c])]
         /\ Ended(c, value)
    ELSE /\ UNCHANGED degrees
         /\ Ended(c, thrown)

\* await updateDoc(degreeRef, degreeData); return true  /  catch: return false
EditAppendWrite(c) ==
  /\ cpc[c] = "appendWrite"
  /\ UpdateDoc(c, snap[c].ref, "false", "true")
  /\ UNCHANGED <<addVars, exam, userVars, nextId, nextDoc, storage, returned, call, snap, patch, ncalls>>

\* ------------------------------------------ editDegree of part_003 (patch)
PatchUpdates ==
  {[newCourse |-> course] : course \in NewCourses}
    \cup {[degreeId |-> 0], [degreeTitle |-> "Renamed"]}

\* editDegree (part_003) up to its updateDoc, with the Firestore functions it
\* calls resolved: the query, then the newCourse block, which fills in courseId
\* and thumbnail of updates.newCourse in place.
EditPatchRead(c, degreeId, updates) ==
  /\ MayCall(c)
  /\ ncalls' = [ncalls EXCEPT ![c] = @ + 1]
  /\ call' = [call EXCEPT ![c] = [op |-> "editPatch", id |-> degreeId,
                                  updates |-> updates]]
  /\ IF Query(degreeId) = {}
       THEN /\ Ended(c, "false")
            /\ snap' = [snap EXCEPT ![c] = Null]
            /\ patch' = [patch EXCEPT ![c] = Null]
            /\ UNCHANGED <<nextId, storage>>
       ELSE LET degreeDocRef == First(Query(degreeId)) IN
            /\ snap' = [snap EXCEPT ![c] = [ref |-> degreeDocRef,
                                            data |-> degrees[degreeDocRef]]]
            /\ IF "newCourse" \in DOMAIN updates
                 THEN \E ending \in (IF updates.newCourse.thumbnail # Null
                                       THEN Outcomes ELSE {"ok"}) :
                        LET upload ==
                              IF updates.newCourse.thumbnail = Null
                                THEN NoUpload(nextId + 1)
                                ELSE uploadThumbnail(updates.newCourse.thumbnail,
                                                     nextId + 1, ending)
                        IN /\ nextId' = upload.id
                           /\ storage' = storage \cup upload.written
                           /\ IF upload.ok
                                THEN /\ patch' = [patch EXCEPT ![c] =
                                          [newCourse |->
                                             UpdateFields(updates.newCourse,
                                               [courseId |-> nextId + 1,
                                                thumbnail |-> upload.metadata])]]
                                     /\ cpc' = [cpc EXCEPT ![c] = "patchWrite"]
                                     /\ UNCHANGED outcome
                                ELSE /\ patch' = [patch EXCEPT ![c] = Null]
                                     /\ Ended(c, "false")
                 ELSE /\ patch' = [patch EXCEPT ![c] = updates]
                      /\ cpc' = [cpc EXCEPT ![c] = "patchWrite"]
                      /\ UNCHANGED <<outcome, nextId, storage>>
  /\ UNCHANGED <<addVars, exam, userVars, nextDoc, degrees, returned>>

\* part_003 imports only collection and addDoc from firebase/firestore: where
\* query, where and getDocs are unresolved, the first line of editDegree throws
\* a ReferenceError and the catch block returns false.
EditPatchUnresolved(c, degreeId, updates) ==
  /\ MayCall(c)
  /\ ncalls' = [ncalls EXCEPT ![c] = @ + 1]
  /\ call' = [call EXCEPT ![c] = [op |-> "editPatch", id |-> degreeId,
                                  updates |-> updates]]
  /\ snap' = [snap EXCEPT ![c] = Null]
  /\ patch' = [patch EXCEPT ![c] = Null]
  /\ Ended(c, "false")
  /\ UNCHANGED <<addVars, exam, userVars, nextId, nextDoc, degrees, storage, returned>>

\* await updateDoc(degreeDocRef, updates); return true  /  catch: return false
EditPatchWrite(c) ==
  /\ cpc[c] = "patchWrite"
  /\ UpdateDoc(c, snap[c].ref, "false", "true")
  /\ UNCHANGED <<addVars, exam, userVars, nextId, nextDoc, storage, returned, call, snap, patch, ncalls>>

\* ---------------------------------------- editDegree of degreeApi.js (replace)
\* The replacement degrees the clients send: no course thumbnails and no
\* lessons, so that the degree thumbnail is the call's only upload.
ReplaceInputs ==
  {[name |-> "Renamed", thumbnail |-> Null, courses |-> <<>>],
   [name |-> "Renamed", thumbnail |-> ImageFile,
    courses |-> <<CourseInput(1, Null, <<ChapterInput(1, 1, <<>>, Null)>>, Null)>>],
   [name |-> "Renamed", thumbnail |-> Null,
    courses |-> <<CourseInput(1, Null, <<ChapterInput(1, 1, <<>>, DefaultTest)>>, Null)>>]}

\* updateTest ends in testObject.calculateTotalMarks() on an object literal
\* that has no such method: every test makes the call throw.
HasTest(courses) ==
  \E i \in DOMAIN courses :
    \/ courses[i].finalTest # Null
    \/ \E j \in DOMAIN courses[i].chapters : courses[i].chapters[j].test # Null

\* formattedCourses for courses without uploads and tests: [courses, id].
RECURSIVE ReplaceCourses(_, _)
ReplaceCourses(courses, id) ==
  IF courses = <<>> THEN [courses |-> <<>>, id |-> id]
  ELSE
    LET course == Head(courses)
        n == Len(course.chapters)
        chapters == [j \in 1..n |-> FormatChapter(course.chapters[j], <<>>, id + j - 1)]
        rest == ReplaceCourses(Tail(courses), id + n + 1)
    IN [courses |-> <<FormatCourse(course, Null, chapters, id + n)>> \o rest.courses,
        id |-> rest.id]

\* editDegree (degreeApi.js) up to its updateDoc.
EditReplaceStart(c, degreeId, updatedDegreeData) ==
  /\ MayCall(c)
  /\ ncalls' = [ncalls EXCEPT ![c] = @ + 1]
  /\ call' = [call EXCEPT ![c] = [op |-> "editReplace", id |-> degreeId,
                                  updates |-> updatedDegreeData]]
  /\ snap' = [snap EXCEPT ![c] = Null]
  /\ \E ending \in (IF updatedDegreeData.thumbnail # Null THEN Outcomes ELSE {"ok"}) :
       LET upload == IF updatedDegreeData.thumbnail = Null THEN NoUpload(nextId)
                     ELSE uploadThumbnail(updatedDegreeData.thumbnail, nextId, ending)
       IN /\ storage' = storage \cup upload.written
          /\ IF ~upload.ok
               THEN /\ nextId' = upload.id
                    /\ patch' = [patch EXCEPT ![c] = Null]
                    /\ Ended(c, "threw")
             ELSE IF HasTest(updatedDegreeData.courses)
               THEN /\ nextId' = upload.id + 1
                    /\ patch' = [patch EXCEPT ![c] = Null]
                    /\ Ended(c, "threw")
             ELSE LET formatted == ReplaceCourses(updatedDegreeData.courses, upload.id)
                  IN /\ nextId' = formatted.id
                     /\ patch' = [patch EXCEPT ![c] =
                          [degreeTitle |-> updatedDegreeData.name,
                           thumbnail |-> upload.metadata,
                           courses |-> formatted.courses]]
                     /\ cpc' = [cpc EXCEPT ![c] = "replaceWrite"]
                     /\ UNCHANGED outcome
  /\ UNCHANGED <<addVars, exam, userVars, nextDoc, degrees, returned>>

\* await updateDoc(doc(db, 'degrees', degreeId), updatedDegree): the argument
\* is used as the document id.
EditReplaceWrite(c) ==
  /\ cpc[c] = "replaceWrite"
  /\ UpdateDoc(c, call[c].id, "threw", "returned")
  /\ UNCHANGED <<addVars, exam, userVars, nextId, nextDoc, storage, returned, call, snap, patch, ncalls>>

\* ------------------------------------------------------------------ delete
\* deleteDegree (degreeApi.js): deleteDoc(doc(db, 'degrees', degreeId)), which
\* succeeds whether or not a document has that id.
deleteDegree(c, degreeId) ==
  /\ MayCall(c)
  /\ ncalls' = [ncalls EXCEPT ![c] = @ + 1]
  /\ call' = [call EXCEPT ![c] = [op |-> "deleteDegree", id |-> degreeId,
                                  updates |-> Null]]
  /\ snap' = [snap EXCEPT ![c] = Null]
  /\ patch' = [patch EXCEPT ![c] = Null]
  /\ degrees' = Without(degrees, degreeId)
  /\ Ended(c, "returned")
  /\ UNCHANGED <<addVars, exam, userVars, nextId, nextDoc, storage, returned>>

\* deleteDegreeById up to its deleteDoc: the query by the degreeId field.
DeleteDegreeByIdRead(c, degreeId) ==
  /\ MayCall(c)
  /\ ncalls' = [ncalls EXCEPT ![c] = @ + 1]
  /\ call' = [call EXCEPT ![c] = [op |-> "deleteDegreeById", id |-> degreeId,
                                  updates |-> Null]]
  /\ patch' = [patch EXCEPT ![c] = Null]
  /\ IF Query(degreeId) = {}
       THEN /\ snap' = [snap EXCEPT ![c] = Null]
            /\ Ended(c, "false")
       ELSE /\ snap' = [snap EXCEPT ![c] =
                 [ref |-> First(Query(degreeId)),
                  data |-> degrees[First(Query(degreeId))]]]
            /\ cpc' = [cpc EXCEPT ![c] = "deleteWrite"]
            /\ UNCHANGED outcome
  /\ UNCHANGED <<addVars, exam, userVars, nextId, nextDoc, degrees, storage, returned>>

\* await deleteDoc(degreeDocRef); return { success: true }
DeleteDegreeByIdWrite(c) ==
  /\ cpc[c] = "deleteWrite"
  /\ degrees' = Without(degrees, snap[c].ref)
  /\ Ended(c, "true")
  /\ UNCHANGED <<addVars, exam, userVars, nextId, nextDoc, storage, returned, call, snap, patch, ncalls>>

\* ---------------------------------------------------------- the whole store
\* One authoring call and the clients' edits and deletes, in any interleaving.
StoreInputs ==
  {Materialize([thumb |-> TRUE, courses |-> <<[thumb |-> TRUE, chapters |-> <<1>>]>>],
               ImageFile, Null)}

Init == InitWith(StoreInputs) /\ exam = NoExam

Next ==
  \/ NextAdd
  \/ \E c \in Clients, degreeId \in IdArgs, updates \in AppendUpdates :
       EditAppendRead(c, degreeId, updates)
  \/ \E c \in Clients : EditAppendWrite(c)
  \/ \E c \in Clients, degreeId \in IdArgs, updates \in PatchUpdates :
       EditPatchRead(c, degreeId, updates)
  \/ \E c \in Clients, degreeId \in IdArgs, updates \in PatchUpdates :
       EditPatchUnresolved(c, degreeId, updates)
  \/ \E c \in Clients : EditPatchWrite(c)
  \/ \E c \in Clients, degreeId \in IdArgs, updatedDegreeData \in ReplaceInputs :
       EditReplaceStart(c, degreeId, updatedDegreeData)
  \/ \E c \in Clients : EditReplaceWrite(c)
  \/ \E c \in Clients, degreeId \in IdArgs : deleteDegree(c, degreeId)
  \/ \E c \in Clients, degreeId \in IdArgs : DeleteDegreeByIdRead(c, degreeId)
  \/ \E c \in Clients : DeleteDegreeByIdWrite(c)

Spec == Init /\ [][Next]_vars

\* The operations of part_002 alone: the edits that append and the delete
\* that finds its document by the degreeId field.
NextAppend ==
  \/ NextAdd
  \/ \E c \in Clients, degreeId \in IdArgs, updates \in AppendUpdates :
       EditAppendRead(c, degreeId, updates)
  \/ \E c \in Clients : EditAppendWrite(c)
  \/ \E c \in Clients, degreeId \in IdArgs : DeleteDegreeByIdRead(c, degreeId)
  \/ \E c \in Clients : DeleteDegreeByIdWrite(c)

SpecAppend == Init /\ [][NextAppend]_vars

\* ------------------------------------------------------- a test on its own
\* createTestObject(testData)
CreateTest ==
  /\ exam.pc = "authored"
  /\ exam' = [exam EXCEPT !.pc = "built",
                          !.test = createTestObject(exam.testData, nextId + 1)]
  /\ nextId' = nextId + 1
  /\ UNCHANGED <<clientVars, addVars, userVars, nextDoc, degrees, storage, returned>>

\* test.calculateTotalMarks()
CalculateTotalMarks ==
  /\ exam.pc = "built"
  /\ exam' = [exam EXCEPT !.pc = "totalled", !.test = calculateTotalMarks(exam.test)]
  /\ UNCHANGED <<clientVars, addVars, userVars, nextId, nextDoc, degrees, storage, returned>>

\* test.calculateUserMarks(userAnswers), with one answer per question
CalculateUserMarks(userAnswers) ==
  /\ exam.pc \in {"built", "totalled"}
  /\ exam' = [exam EXCEPT !.pc = "scored",
                          !.userAnswers = userAnswers,
                          !.userTotal = calculateUserMarks(exam.test, userAnswers)]
  /\ UNCHANGED <<clientVars, addVars, userVars, nextId, nextDoc, degrees, storage, returned>>

InitTest ==
  /\ InitWith(StoreInputs)
  /\ exam \in {[NoExam EXCEPT !.pc = "authored", !.testData = testData] :
                 testData \in ExamInputs}

NextTest ==
  \/ CreateTest
  \/ CalculateTotalMarks
  \/ /\ exam.test # Null
     /\ \E userAnswers \in [DOMAIN exam.test.questions -> AnswerSpecs] :
          CalculateUserMarks(userAnswers)

SpecTest == InitTest /\ [][NextTest]_vars

\* ------------------------------------------------------- users (part_001)
\* An email address; user.email.split('@')[0] is its local part.
Emails == {[local |-> "ann", domain |-> "x.org"], [local |-> "ann", domain |-> "y.org"]}

Usernames == {"ann", "bob"}

SignupData == [email : Emails, username : Usernames, password : {"secret"}]

LocalPart(email) == email.local

PurchaseArgs ==
  {[degreeId |-> 1, degreeName |-> "Alpha"], [degreeId |-> 2, degreeName |-> "Beta"]}

\* getDocs(query(usersRef, where(field, '==', value))).empty
QueryEmpty(field, value) == \A u \in DOMAIN users : users[u][field] # value

MayCallUser(c) == cpc[c] \in {"idle", "done"} /\ Calls < MaxUserCalls

\* signupUser(data): the username query
SignupUsernameQuery(c, data) ==
  /\ MayCallUser(c)
  /\ ncalls' = [ncalls EXCEPT ![c] = @ + 1]
  /\ call' = [call EXCEPT ![c] = [op |-> "signupUser", isGoogle |-> FALSE, data |-> data]]
  /\ snap' = [snap EXCEPT ![c] =
               [usernameEmpty |-> QueryEmpty("username", data.username)]]
  /\ patch' = [patch EXCEPT ![c] = Null]
  /\ cpc' = [cpc EXCEPT ![c] = "signupEmailQuery"]
  /\ UNCHANGED <<addVars, exam, userVars, storeVars, outcome>>

\* the email query, then the two checks
SignupEmailQuery(c) ==
  /\ cpc[c] = "signupEmailQuery"
  /\ IF ~snap[c].usernameEmpty \/ ~QueryEmpty("email", call[c].data.email)
       THEN Ended(c, "failure")
       ELSE /\ cpc' = [cpc EXCEPT ![c] = "signupCreate"]
            /\ UNCHANGED outcome
  /\ UNCHANGED <<addVars, exam, userVars, storeVars, call, snap, patch, ncalls>>

\* createUserWithEmailAndPassword: one account per email
SignupCreate(c) ==
  /\ cpc[c] = "signupCreate"
  /\ IF call[c].data.email \in accounts
       THEN /\ Ended(c, "failure")
            /\ UNCHANGED <<accounts, patch>>
       ELSE /\ accounts' = accounts \cup {call[c].data.email}
            /\ patch' = [patch EXCEPT ![c] =
                 [email |-> call[c].data.email, username |-> call[c].data.username,
                  role |-> "client"]]
            /\ cpc' = [cpc EXCEPT ![c] = "signupWrite"]
            /\ UNCHANGED outcome
  /\ UNCHANGED <<addVars, exam, users, nextUser, storeVars, call, snap, ncalls>>

\* signupUser(data, true): signInWithPopup with a Google account
SignupGooglePopup(c, email) ==
  /\ MayCallUser(c)
  /\ ncalls' = [ncalls EXCEPT ![c] = @ + 1]
  /\ call' = [call EXCEPT ![c] = [op |-> "signupUser", isGoogle |-> TRUE, email |-> email]]
  /\ snap' = [snap EXCEPT ![c] = Null]
  /\ patch' = [patch EXCEPT ![c] = Null]
  /\ accounts' = accounts \cup {email}
  /\ cpc' = [cpc EXCEPT ![c] = "signupGoogleQuery"]
  /\ UNCHANGED <<addVars, exam, users, nextUser, storeVars, outcome>>

\* the email query of the Google path
SignupGoogleQuery(c) ==
  /\ cpc[c] = "signupGoogleQuery"
  /\ IF ~QueryEmpty("email", call[c].email)
       THEN /\ Ended(c, "failure")
            /\ UNCHANGED patch
       ELSE /\ patch' = [patch EXCEPT ![c] =
                 [email |-> call[c].email, username |-> LocalPart(call[c].email),
                  role |-> "client", firstName |-> "Ann", lastName |-> ""]]
            /\ cpc' = [cpc EXCEPT ![c] = "signupWrite"]
            /\ UNCHANGED outcome
  /\ UNCHANGED <<addVars, exam, userVars, storeVars, call, snap, ncalls>>

\* await addDoc(usersRef, {...}); return { success: true }
SignupWrite(c) ==
  /\ cpc[c] = "signupWrite"
  /\ users' = (AutoId(nextUser + 1) :> patch[c]) @@ users
  /\ nextUser' = nextUser + 1
  /\ Ended(c, "success")
  /\ UNCHANGED <<addVars, exam, accounts, storeVars, call, snap, patch, ncalls>>

\* An awaited request of signupUser rejects: catch, return { success: false }
SignupRejected(c) ==
  /\ cpc[c] \in {"signupEmailQuery", "signupCreate", "signupGoogleQuery", "signupWrite"}
  /\ Ended(c, "failure")
  /\ UNCHANGED <<addVars, exam, userVars, storeVars, call, snap, patch, ncalls>>

\* userData.purchasedDegrees || []
PurchasedDegrees(userData) ==
  IF "purchasedDegrees" \in DOMAIN userData THEN userData.purchasedDegrees ELSE <<>>

NoExistingDegree(purchasedDegrees, degreeId) == FALSE

\* purchasedDegrees.find(d => d.degreeId === degree.degreeId)
ExistingDegree(purchasedDegrees, degreeId) ==
  \E n \in DOMAIN purchasedDegrees : purchasedDegrees[n].degreeId = degreeId

\* addDegreeToUser up to its updateDoc: getDoc, then the two checks
AddDegreeToUserRead(c, userId, purchase) ==
  /\ MayCallUser(c)
  /\ ncalls' = [ncalls EXCEPT ![c] = @ + 1]
  /\ call' = [call EXCEPT ![c] =
               [op |-> "addDegreeToUser", userId |-> userId, degree |-> purchase]]
  /\ snap' = [snap EXCEPT ![c] =
               IF userId \in DOMAIN users THEN users[userId] ELSE Null]
  /\ IF userId \notin DOMAIN users
       THEN /\ Ended(c, "failure")
            /\ patch' = [patch EXCEPT ![c] = Null]
     ELSE IF ExistingDegree(PurchasedDegrees(users[userId]), purchase.degreeId)
       THEN /\ Ended(c, "failure")
            /\ patch' = [patch EXCEPT ![c] = Null]
     ELSE /\ patch' = [patch EXCEPT ![c] =
               [purchasedDegrees |->
                  Append(PurchasedDegrees(users[userId]),
                         [degreeId |-> purchase.degreeId,
                          degreeName |-> purchase.degreeName, progress |-> 0])]]
          /\ cpc' = [cpc EXCEPT ![c] = "addDegreeWrite"]
          /\ UNCHANGED outcome
  /\ UNCHANGED <<addVars, exam, userVars, storeVars>>

\* await updateDoc(userRef, { purchasedDegrees: updatedDegrees })
AddDegreeToUserWrite(c) ==
  /\ cpc[c] = "addDegreeWrite"
  /\ \/ /\ users' = [users EXCEPT ![call[c].userId] = UpdateFields(@, patch[c])]
        /\ Ended(c, "success")
     \/ /\ UNCHANGED users
        /\ Ended(c, "failure")
  /\ UNCHANGED <<addVars, exam, accounts, nextUser, storeVars, call, snap, patch, ncalls>>

UserIdArgs == DOMAIN users \cup {0}

NextUsers ==
  \/ \E c \in Clients, data \in SignupData : SignupUsernameQuery(c, data)
  \/ \E c \in Clients : SignupEmailQuery(c)
  \/ \E c \in Clients : SignupCreate(c)
  \/ \E c \in Clients, email \in Emails : SignupGooglePopup(c, email)
  \/ \E c \in Clients : SignupGoogleQuery(c)
  \/ \E c \in Clients : SignupWrite(c)
  \/ \E c \in Clients : SignupRejected(c)
  \/ \E c \in Clients, userId \in UserIdArgs, purchase \in PurchaseArgs :
       AddDegreeToUserRead(c, userId, purchase)
  \/ \E c \in Clients : AddDegreeToUserWrite(c)

SpecUsers == Init /\ [][NextUsers]_vars

\* ------------------------------------------------------- login (part_001)
\* bcrypt: a hash of a password, and compare(password, hash).
Hash(password) == <<"bcrypt", password>>

Compare(password, hash) == hash = Hash(password)

\* loginUser(data): by username when data.username is given, else by email,
\* else by nothing.
LoginData ==
  [username : Usernames, password : {"secret", "wrong"}]
    \cup [email : Emails, password : {"secret", "wrong"}]
    \cup [password : {"secret"}]

\* getDocs(loginQuery).docs: the documents the query matches.
LoginMatches(data) ==
  IF "username" \in DOMAIN data
    THEN {u \in DOMAIN users : users[u].username = data.username}
    ELSE {u \in DOMAIN users : users[u].email = data.email}

\* The password check of loginUser on the document read: bcrypt.compare
\* rejects when the document has no password field.
PasswordCheck(data, userData) ==
  IF "password" \notin DOMAIN userData THEN "Illegal arguments: string, undefined"
  ELSE IF Compare(data.password, userData.password) THEN "success"
  ELSE "Incorrect password."

\* loginUser(data): the query, the password check, the result; snap holds the
\* user record returned.
LoginUser(c, data) ==
  /\ MayCallUser(c)
  /\ ncalls' = [ncalls EXCEPT ![c] = @ + 1]
  /\ call' = [call EXCEPT ![c] = [op |-> "loginUser", isGoogle |-> FALSE, data |-> data]]
  /\ patch' = [patch EXCEPT ![c] = Null]
  /\ IF "username" \notin DOMAIN data /\ "email" \notin DOMAIN data
       THEN /\ Ended(c, "Username or email is required for login.")
            /\ snap' = [snap EXCEPT ![c] = Null]
     ELSE IF LoginMatches(data) = {}
       THEN /\ Ended(c, "Invalid username or email.")
            /\ snap' = [snap EXCEPT ![c] = Null]
     ELSE \E u \in LoginMatches(data) :
            /\ Ended(c, PasswordCheck(data, users[u]))
            /\ snap' = [snap EXCEPT ![c] =
                 IF PasswordCheck(data, users[u]) = "success" THEN users[u] ELSE Null]
  /\ UNCHANGED <<addVars, exam, userVars, storeVars>>

\* loginUser(data, true): signInWithPopup with a Google account
LoginGoogle(c, email) ==
  /\ MayCallUser(c)
  /\ ncalls' = [ncalls EXCEPT ![c] = @ + 1]
  /\ call' = [call EXCEPT ![c] = [op |-> "loginUser", isGoogle |-> TRUE, email |-> email]]
  /\ snap' = [snap EXCEPT ![c] = [email |-> email]]
  /\ patch' = [patch EXCEPT ![c] = Null]
  /\ accounts' = accounts \cup {email}
  /\ Ended(c, "success")
  /\ UNCHANGED <<addVars, exam, users, nextUser, storeVars>>

\* What editUser is given here: a password hash for the document.
EditUserData == {[password |-> Hash("secret")]}

\* editUser(id, data): updateDoc(doc(db, 'users', id), { ...data })
EditUser(c, id, data) ==
  /\ MayCallUser(c)
  /\ ncalls' = [ncalls EXCEPT ![c] = @ + 1]
  /\ call' = [call EXCEPT ![c] = [op |-> "editUser", id |-> id, data |-> data]]
  /\ snap' = [snap EXCEPT ![c] = Null]
  /\ patch' = [patch EXCEPT ![c] = data]
  /\ IF id \in DOMAIN users
       THEN /\ users' = [users EXCEPT ![id] = UpdateFields(@, data)]
            /\ Ended(c, "true")
       ELSE /\ UNCHANGED users
            /\ Ended(c, "undefined")
  /\ UNCHANGED <<addVars, exam, accounts, nextUser, storeVars>>

NextLogin ==
  \/ \E c \in Clients, data \in SignupData : SignupUsernameQuery(c, data)
  \/ \E c \in Clients : SignupEmailQuery(c)
  \/ \E c \in Clients : SignupCreate(c)
  \/ \E c \in Clients : SignupWrite(c)
  \/ \E c \in Clients : SignupRejected(c)
  \/ \E c \in Clients, data \in LoginData : LoginUser(c, data)
  \/ \E c \in Clients, email \in Emails : LoginGoogle(c, email)
  \/ \E c \in Clients, id \in UserIdArgs, data \in EditUserData : EditUser(c, id, data)

SpecLogin == Init /\ [][NextLogin]_vars

\* ================================================================= claims
Stored == {degrees[d] : d \in DOMAIN degrees}

RECURSIVE SumOfMarks(_)
SumOfMarks(questions) ==
  IF questions = <<>> THEN 0 ELSE questions[1].marks + SumOfMarks(Tail(questions))

\* Every test of a degree document: the chapter tests and the final tests.
ChapterTestsOf(doc) ==
  UNION {{doc.courses[i].chapters[j].test : j \in DOMAIN doc.courses[i].chapters} :
           i \in DOMAIN doc.courses} \ {Null}

FinalTestsOf(doc) == {doc.courses[i].finalTest : i \in DOMAIN doc.courses} \ {Null}

\* C1: if an upload of addDegree has failed, addDegree has failed and the
\* degrees collection is what it was before the call (empty: nothing was added).
C1_CreationAllOrNothing ==
  (\E key \in DOMAIN up : up[key].st = "failed") =>
    pc = "failed" /\ degrees = <<>>

\* C1 witness: a lesson upload failed after another upload of the same call had
\* succeeded and written its object.
C1_Witness ==
  /\ pc = "failed"
  /\ \E key \in LessonKeys(degreeData) : up[key].st = "failed"
  /\ \E key \in DOMAIN up : up[key].st = "ok"
  /\ storage # {}
  /\ degrees = <<>>

\* C4: in every stored degree document every test, chapter test or final test,
\* has totalMarks equal to the sum of its questions' marks.
C4_TotalMarksIsSum ==
  \A doc \in Stored : \A test \in ChapterTestsOf(doc) \cup FinalTestsOf(doc) :
    test.totalMarks = SumOfMarks(test.questions)

TestMirrors(testData, test) ==
  IF testData = Null THEN test = Null
  ELSE /\ test # Null
       /\ Len(test.questions) = Len(testData.questions)
       /\ \A n \in DOMAIN testData.questions :
            test.questions[n].answerType = testData.questions[n].type

MirrorsInput(d, doc) ==
  /\ Len(doc.courses) = Len(d.courses)
  /\ \A i \in DOMAIN d.courses :
       LET course == d.courses[i]
           out == doc.courses[i]
       IN /\ out.courseTitle = course.title
          /\ TestMirrors(course.finalTest, out.finalTest)
          /\ Len(out.chapters) = Len(course.chapters)
          /\ \A j \in DOMAIN course.chapters :
               /\ out.chapters[j].chapterTitle = course.chapters[j].title
               /\ TestMirrors(course.chapters[j].test, out.chapters[j].test)
               /\ Len(out.chapters[j].lessons) = Len(course.chapters[j].lessons)
               /\ \A k \in DOMAIN course.chapters[j].lessons :
                    /\ out.chapters[j].lessons[k].lessonTitle =
                         course.chapters[j].lessons[k].title
                    /\ out.chapters[j].lessons[k].file.name =
                         course.chapters[j].lessons[k].file.name

\* C9: the degree addDegree builds and stores has, at every level, the input's
\* lengths and order, whatever the order in which the uploads completed.
C9_TreeMirrorsInput ==
  /\ degree # Null => MirrorsInput(degreeData, degree)
  /\ \A doc \in Stored : MirrorsInput(degreeData, doc)

\* C9 witness: a stored degree one of whose chapters saw its second lesson
\* complete before its first, and whose second course was built before its first.
C9_Witness ==
  /\ pc = "done"
  /\ \A doc \in Stored : MirrorsInput(degreeData, doc)
  /\ Len(degreeData.courses) = 2
  /\ coursesOut[2].courseId < coursesOut[1].courseId
  /\ \E key \in ChapterKeys(degreeData) :
       /\ <<key[1], key[2], 2>> \in DOMAIN lessonsOut
       /\ lessonsOut[<<key[1], key[2], 2>>].lessonId <
            lessonsOut[<<key[1], key[2], 1>>].lessonId

\* The identified nodes of a degree document, each with its place in the tree.
NodesOf(doc) ==
  {[kind |-> "degree", at |-> <<>>, id |-> doc.degreeId]} \cup
  {[kind |-> "course", at |-> <<i>>, id |-> doc.courses[i].courseId] :
     i \in DOMAIN doc.courses} \cup
  {[kind |-> "test", at |-> <<i>>, id |-> doc.courses[i].finalTest.testId] :
     i \in {c \in DOMAIN doc.courses : doc.courses[c].finalTest # Null}} \cup
  UNION {
    {[kind |-> "chapter", at |-> <<i, j>>, id |-> doc.courses[i].chapters[j].chapterId] :
       j \in DOMAIN doc.courses[i].chapters} \cup
    {[kind |-> "test", at |-> <<i, j>>, id |-> doc.courses[i].chapters[j].test.testId] :
       j \in {c \in DOMAIN doc.courses[i].chapters :
                doc.courses[i].chapters[c].test # Null}} \cup
    UNION {{[kind |-> "lesson", at |-> <<i, j, k>>,
             id |-> doc.courses[i].chapters[j].lessons[k].lessonId] :
              k \in DOMAIN doc.courses[i].chapters[j].lessons} :
             j \in DOMAIN doc.courses[i].chapters} :
    i \in DOMAIN doc.courses}

\* C10: within the degree addDegree builds and stores, no two nodes (degree,
\* courses, chapters, lessons, tests) have the same identifier.
C10_IdsPairwiseDistinct ==
  \A doc \in Stored \cup ({degree} \ {Null}) :
    \A a, b \in NodesOf(doc) : a.id = b.id => a = b

\* C10 witness: a stored degree with a course, a chapter, a lesson, a chapter
\* test and a final test.
C10_Witness ==
  \E doc \in Stored :
    /\ \A kind \in {"degree", "course", "chapter", "lesson"} :
         \E a \in NodesOf(doc) : a.kind = kind
    /\ Cardinality({a \in NodesOf(doc) : a.kind = "test"}) >= 2
    /\ \A a, b \in NodesOf(doc) : a.id = b.id => a = b

\* ------------------------------------------------------------ clients' steps
\* The step starts a call of client c / is a step of client c.
Starts(c) == ncalls'[c] # ncalls[c]

StepOf(c) == Starts(c) \/ cpc'[c] # cpc[c]

Completed(c, op) == cpc[c] = "done" /\ call[c].op = op

\* The call of client c is an appendCourse: it carries newCourse and nothing else.
AppendCourseOnly(c) ==
  /\ call[c].op = "editAppend"
  /\ call[c].updates.newCourse # Null
  /\ call[c].updates.newChapter = Null
  /\ call[c].updates.newLesson = Null

Min(m, n) == IF m <= n THEN m ELSE n

\* C2: two appendCourse calls (part_002 editDegree with newCourse) on the same
\* document that both reported success leave a course list of length N+1 or
\* N+2, N being the shorter of the two lists they read (the lists differing by
\* at most the other call's course); when both read the same list the length
\* is N+1, the later write having overwritten the earlier one's course.
C2_RacingAppendsKeepOneOrTwo ==
  ( /\ Completed("a", "editAppend") /\ AppendCourseOnly("a") /\ outcome["a"] = "true"
    /\ Completed("b", "editAppend") /\ AppendCourseOnly("b") /\ outcome["b"] = "true"
    /\ snap["a"].ref = snap["b"].ref
    /\ snap["a"].ref \in DOMAIN degrees ) =>
      LET Na == Len(snap["a"].data.courses)
          Nb == Len(snap["b"].data.courses)
          N == Min(Na, Nb)
          final == Len(degrees[snap["a"].ref].courses)
      IN /\ (Na <= N + 1 /\ Nb <= N + 1) => final \in {N + 1, N + 2}
         /\ snap["a"].data = snap["b"].data => final = N + 1

C2_Witness ==
  /\ Completed("a", "editAppend") /\ AppendCourseOnly("a") /\ outcome["a"] = "true"
  /\ Completed("b", "editAppend") /\ AppendCourseOnly("b") /\ outcome["b"] = "true"
  /\ snap["a"].ref \in DOMAIN degrees
  /\ snap["a"] = snap["b"]
  /\ Len(snap["a"].data.courses) >= 1
  /\ Len(degrees[snap["a"].ref].courses) = Len(snap["a"].data.courses) + 1

\* What a part_002 editDegree call that reported success has done: every
\* target it named was found and every file it carried is in storage.
Applied(c) ==
  LET updates == call[c].updates
      courses == patch[c].courses
  IN /\ patch[c] # Null
     /\ (updates.newCourse # Null /\ updates.newCourse.thumbnail # Null) =>
          \E i \in DOMAIN courses :
            /\ courses[i].courseTitle = updates.newCourse.title
            /\ courses[i].thumbnail # Null
            /\ courses[i].thumbnail.url \in storage
     /\ updates.newChapter # Null =>
          \E i \in DOMAIN courses :
            /\ courses[i].courseId = updates.newChapter.courseId
            /\ \E j \in DOMAIN courses[i].chapters :
                 courses[i].chapters[j].chapterTitle = updates.newChapter.title
     /\ updates.newLesson # Null =>
          \E i \in DOMAIN courses :
            /\ courses[i].courseId = updates.newLesson.courseId
            /\ \E j \in DOMAIN courses[i].chapters :
                 /\ courses[i].chapters[j].chapterId = updates.newLesson.chapterId
                 /\ \E k \in DOMAIN courses[i].chapters[j].lessons :
                      LET lesson == courses[i].chapters[j].lessons[k]
                      IN /\ lesson.lessonTitle = updates.newLesson.title
                         /\ lesson.file # Null
                         /\ lesson.file.url \in storage

\* C3: a part_002 editDegree call that names a course or chapter that is not
\* there, or whose upload fails, reports failure (a call that reports success
\* has found every target and stored every file), and no step of an editDegree
\* call other than its successful completion changes a stored document, also
\* when the call carried a valid newCourse or newChapter.
C3_FailedEditWritesNothing ==
  /\ [](\A c \in Clients :
          (Completed(c, "editAppend") /\ outcome[c] = "true") => Applied(c))
  /\ [][\A c \in Clients :
          ( /\ StepOf(c)
            /\ call'[c].op = "editAppend"
            /\ ~(cpc'[c] = "done" /\ outcome'[c] = "true") ) => degrees' = degrees]_vars

C3_Witness ==
  \E c \in Clients :
    /\ Completed(c, "editAppend") /\ outcome[c] = "false"
    /\ call[c].updates.newCourse # Null
    /\ call[c].updates.newLesson # Null
    /\ call[c].updates.newLesson.chapterId = 0
    /\ snap[c] # Null
    /\ snap[c].ref \in DOMAIN degrees
    /\ degrees[snap[c].ref] = snap[c].data

\* C5: once a delete (deleteDegree or deleteDegreeById) called with an
\* identifier that addDegree returned has completed, getDegreeById of that
\* identifier is null and getAllDegrees holds no document with that degreeId.
C5_DeleteRemovesDegree ==
  \A c \in Clients :
    ( /\ cpc[c] = "done"
      /\ call[c].op \in {"deleteDegree", "deleteDegreeById"}
      /\ outcome[c] \in {"returned", "true"}
      /\ call[c].id \in returned ) =>
        /\ getDegreeById(call[c].id) = Null
        /\ \A doc \in getAllDegrees : doc.degreeId # call[c].id

\* C6: the write of a degreeApi.js editDegree call, made with an identifier
\* that addDegree returned while a stored document has that degreeId, succeeds
\* and leaves that document with the title, thumbnail and courses of the call.
C6_ReplaceFindsDegree ==
  [][\A c \in Clients :
       ( /\ cpc[c] = "replaceWrite" /\ cpc'[c] = "done"
         /\ call[c].id \in returned
         /\ Query(call[c].id) # {} ) =>
           /\ outcome'[c] = "returned"
           /\ LET d == First(Query(call[c].id))
              IN /\ d \in DOMAIN degrees'
                 /\ \A f \in DOMAIN patch[c] : degrees'[d][f] = patch[c][f]]_vars

\* The call of client c carries newCourse and nothing else (either variant).
NewCourseOnly(c) ==
  \/ AppendCourseOnly(c)
  \/ call[c].op = "editPatch" /\ "newCourse" \in DOMAIN call[c].updates

C11_UnsupportedTypeWritesNothing ==
  \A key \in LessonKeys(degreeData) :
    LET file == FileOf(degreeData, key) IN
    FileType(file) \notin {"video", "audio", "image", "document", "pdf", "ppt"} =>
      /\ up[key].st \in {"idle", "failed"}
      /\ up[key].token = 0
      /\ lessonsOut[key] = Null
      /\ \A path \in storage : path.name # file.name

C11_Witness ==
  \E key \in LessonKeys(degreeData) :
    /\ FileType(FileOf(degreeData, key)) \notin
         {"video", "audio", "image", "document", "pdf", "ppt"}
    /\ up[key].st = "failed"
    /\ pc = "failed"

\* C12: a mutator call that fails reaches its caller as a thrown error: no
\* editDegree call of any variant ends by returning false.
C12_FailuresAreThrown ==
  \A c \in Clients :
    (cpc[c] = "done" /\ call[c].op \in {"editAppend", "editPatch", "editReplace"}) =>
      outcome[c] # "false"

\* C13: the upload of a video or audio lesson whose bytes are stored and whose
\* URL is obtained does not fail on account of the duration: no such upload
\* ends in failure because the duration could not be extracted.
C13_DurationFailureIsNull ==
  \A key \in LessonKeys(degreeData) :
    (HasDuration(FileOf(degreeData, key)) /\ up[key].st = "failed") =>
      up[key].cause # "duration"

\* The input of one course, one chapter and one video lesson, without tests.
OneVideoLesson ==
  Materialize([thumb |-> FALSE,
               courses |-> <<[thumb |-> FALSE, chapters |-> <<1>>]>>], VideoFile, Null)

\* C14: addDegree of one course, one chapter and one video lesson fails only
\* when storage or Firestore rejects (uploadBytes, getDownloadURL or addDoc
\* failing); what it stores has exactly one course, one chapter with test null
\* and one lesson of type video; and every stored lesson's file type is the
\* primary category of the content type of the file it was given.
C14_VideoLessonScenario ==
  /\ (degreeData = OneVideoLesson /\ pc = "failed") =>
       \/ \E key \in DOMAIN up : up[key].cause \in {"bytes", "url"}
       \/ \A key \in DOMAIN up : up[key].st = "ok"
  /\ \A doc \in Stored :
       /\ degreeData = OneVideoLesson =>
            /\ Len(doc.courses) = 1
            /\ Len(doc.courses[1].chapters) = 1
            /\ doc.courses[1].chapters[1].test = Null
            /\ Len(doc.courses[1].chapters[1].lessons) = 1
            /\ doc.courses[1].chapters[1].lessons[1].file.type = "video"
       /\ \A key \in LessonKeys(degreeData) :
            doc.courses[key[1]].chapters[key[2]].lessons[key[3]].file.type
              = FileType(FileOf(degreeData, key))

\* The marks of the questions answered right: the MCQ questions whose answer
\* equals correctAnswer and the Typed questions whose answer is validated.
Earning(questions, userAnswers) ==
  {n \in DOMAIN questions :
     \/ questions[n].answerType = "MCQ"
          /\ userAnswers[n].answer = questions[n].correctAnswer
     \/ questions[n].answerType = "Typed" /\ userAnswers[n].isValidated}

RECURSIVE MarksOf(_, _)
MarksOf(questions, indices) ==
  IF indices = {} THEN 0
  ELSE LET n == CHOOSE m \in indices : TRUE
       IN questions[n].marks + MarksOf(questions, indices \ {n})

\* C15: calculateUserMarks returns the sum of the marks of the MCQ questions
\* whose answer equals correctAnswer and of the Typed questions whose answer is
\* validated, and 0 when there is no such question.
C15_UserMarksIsSumOfEarned ==
  exam.pc = "scored" =>
    LET earning == Earning(exam.test.questions, exam.userAnswers)
    IN /\ exam.userTotal = MarksOf(exam.test.questions, earning)
       /\ earning = {} => exam.userTotal = 0

C15_Witness ==
  /\ exam.pc = "scored"
  /\ exam.userTotal = 3
  /\ \E n \in DOMAIN exam.test.questions :
       /\ exam.test.questions[n].answerType = "MCQ"
       /\ exam.userAnswers[n].answer = exam.test.questions[n].correctAnswer
       /\ exam.test.questions[n].marks = 2

\* The number of MCQ questions of a test.
McqCount(test) ==
  Cardinality({n \in DOMAIN test.questions : test.questions[n].answerType = "MCQ"})

\* C16: after createTestObject and calculateTotalMarks, totalMarks is the
\* number of MCQ questions of the test, whatever marks were authored.
C16_TotalMarksIsMcqCount ==
  exam.pc = "totalled" => exam.test.totalMarks = McqCount(exam.test)

\* C17: addDegree does not return, with a result or with a failure, while an
\* upload it started is still in flight: once the call has ended, every upload
\* it started has completed.
C17_NoUploadInFlightAtReturn ==
  pc \in {"done", "failed"} => \A key \in DOMAIN up : up[key].st # "pending"

\* C18: editDegree (degreeApi.js), called for a present degree document with
\* courses that hold a chapter test or a final test and with every upload
\* succeeding, does not fail: it goes on to write the document with the tests
\* rebuilt by updateTest.
C18_ReplaceWithTestsWrites ==
  [][\A c \in Clients :
       (/\ Starts(c)
        /\ call'[c].op = "editReplace"
        /\ HasTest(call'[c].updates.courses)
        /\ call'[c].updates.thumbnail = Null
        /\ call'[c].id \in DOMAIN degrees)
         => /\ cpc'[c] = "replaceWrite"
            /\ outcome'[c] # "threw"]_vars

\* The entries of the purchasedDegrees list of a user document for a degreeId.
EntriesFor(userData, degreeId) ==
  IF "purchasedDegrees" \in DOMAIN userData
    THEN {n \in DOMAIN userData.purchasedDegrees :
            userData.purchasedDegrees[n].degreeId = degreeId}
    ELSE {}

\* C19: whatever addDegreeToUser calls ran, one after the other or with their
\* reads and writes interleaved, the purchasedDegrees list of a user holds at
\* most one entry per degreeId; and a call for a degreeId that is in the list
\* when the call reads the user returns failure and leaves the list unchanged.
C19_OneEntryPerDegree ==
  /\ [](\A u \in DOMAIN users : \A purchase \in PurchaseArgs :
          Cardinality(EntriesFor(users[u], purchase.degreeId)) <= 1)
  /\ [][\A c \in Clients :
          (/\ Starts(c)
           /\ call'[c].op = "addDegreeToUser"
           /\ call'[c].userId \in DOMAIN users
           /\ EntriesFor(users[call'[c].userId], call'[c].degree.degreeId) # {})
            => /\ cpc'[c] = "done"
               /\ outcome'[c] = "failure"
               /\ users' = users]_vars

C19_Witness ==
  /\ Completed("a", "addDegreeToUser") /\ outcome["a"] = "success"
  /\ Completed("b", "addDegreeToUser") /\ outcome["b"] = "failure"
  /\ call["a"].userId = call["b"].userId
  /\ call["a"].degree.degreeId = call["b"].degree.degreeId
  /\ call["b"].userId \in DOMAIN users
  /\ snap["b"] # Null
  /\ EntriesFor(snap["b"], call["b"].degree.degreeId) # {}
  /\ Len(users[call["b"].userId].purchasedDegrees) = 2
  /\ Cardinality(EntriesFor(users[call["b"].userId], call["b"].degree.degreeId)) = 1

\* C20: whatever signupUser calls ran, by email and password or with Google,
\* one after the other or interleaved, no two user documents have the same
\* username and no two have the same email.
C20_UsernamesAndEmailsUnique ==
  \A u, v \in DOMAIN users :
    u # v => /\ users[u].username # users[v].username
             /\ users[u].email # users[v].email

\* The call of client d is a signupUser by email and password that succeeded.
SignedUp(d) ==
  /\ Completed(d, "signupUser")
  /\ ~call[d].isGoogle
  /\ outcome[d] = "success"

\* The loginUser call that client c starts in this step names the user and the
\* password of the signup data.
LogsInAs(c, data) ==
  /\ Starts(c)
  /\ call'[c].op = "loginUser"
  /\ ~call'[c].isGoogle
  /\ call'[c].data.password = data.password
  /\ \/ "username" \in DOMAIN call'[c].data /\ call'[c].data.username = data.username
     \/ /\ "username" \notin DOMAIN call'[c].data
        /\ "email" \in DOMAIN call'[c].data
        /\ call'[c].data.email = data.email

\* C21: after a signupUser by email and password has succeeded, a later
\* loginUser with the same username (or the same email) and the same password
\* returns success with the stored record of that user.
C21_LoginAfterSignup ==
  [][\A c, d \in Clients :
       (SignedUp(d) /\ LogsInAs(c, call[d].data))
         => /\ outcome'[c] = "success"
            /\ snap'[c] # Null
            /\ snap'[c].username = call[d].data.username
            /\ snap'[c].email = call[d].data.email]_vars

====
